---- MODULE Spec2Model ----
(***************************************************************************)
(* Model of consensus/types/src/validator.rs: the Validator record, its    *)
(* lifecycle predicates and its withdrawal-credential accessors.           *)
(*                                                                         *)
(* u64 values (epochs, balances) are scaled to 0..MaxU64: the code only    *)
(* compares them, so the one width-sensitive fact is that far_future_epoch *)
(* is the largest representable value.  Bytes keep their real values and   *)
(* byte strings keep their real lengths (32, 20); the inputs are drawn     *)
(* from families of such strings that mark every offset the code uses.     *)
(***************************************************************************)
EXTENDS Integers, Sequences, FiniteSets, TLC

VARIABLES v, spec, ret, changed, admissions

vars == <<v, spec, ret, changed, admissions>>

----------------------------------------------------------------------------
(* Bounds and program constants *)

\* scaled std::u64::MAX
MaxU64 == 6

\* cap on the admission counter of the registry driver
MaxAdmissions == 3

\* [0u8; 32]: length of Hash256
HashLen == 32

\* bytes[12..] / get(12..): offset of the address inside the credentials
AddressOffset == 12

\* length of Address (H160)
AddressLen == 20

U64 == 0..MaxU64

Epochs == U64

Balances == U64

\* u8 values used as prefix, tag and payload bytes
Bytes == {0, 1, 255}

----------------------------------------------------------------------------
(* Byte strings *)

Fill(n, b) == [i \in 1..n |-> b]

Mark(n, k, b) == [i \in 1..n |-> IF i = k THEN b ELSE 0]

Ramp(n) == [i \in 1..n |-> i]

\* 20-byte execution addresses: uniform, first/last byte marked, all distinct
Addresses ==
    {Fill(AddressLen, b) : b \in Bytes}
        \cup {Mark(AddressLen, 1, 255), Mark(AddressLen, AddressLen, 255)}
        \cup {Ramp(AddressLen)}

\* 32-byte credentials with tag t and a payload that is nonzero everywhere
Tagged(t, w) == [i \in 1..HashLen |-> IF i = 1 THEN t ELSE w[i]]

Credentials ==
    {Tagged(t, Fill(HashLen, b)) : t \in Bytes, b \in {0, 255}}
        \cup {Tagged(t, Ramp(HashLen)) : t \in Bytes}

\* Hash256::default()
ZeroHash == Fill(HashLen, 0)

Pubkeys == {"empty", "pk1"}

----------------------------------------------------------------------------
(* ChainSpec: the three configuration values the code reads *)

ChainSpecs ==
    [far_future_epoch : {MaxU64},
     max_effective_balance : {2, MaxU64},
     eth1_address_withdrawal_prefix_byte : Bytes]

----------------------------------------------------------------------------
(* struct Validator *)

Validator ==
    [pubkey : Pubkeys,
     withdrawal_credentials : Credentials,
     effective_balance : Balances,
     slashed : BOOLEAN,
     activation_eligibility_epoch : Epochs,
     activation_epoch : Epochs,
     exit_epoch : Epochs,
     withdrawable_epoch : Epochs]

\* impl Default for Validator
default ==
    [pubkey |-> "empty",
     withdrawal_credentials |-> ZeroHash,
     activation_eligibility_epoch |-> MaxU64,
     activation_epoch |-> MaxU64,
     exit_epoch |-> MaxU64,
     withdrawable_epoch |-> MaxU64,
     slashed |-> FALSE,
     effective_balance |-> MaxU64]

----------------------------------------------------------------------------
(* Lifecycle predicates *)

is_active_at_inclusive_exit(self, epoch) ==
    self.activation_epoch <= epoch /\ epoch <= self.exit_epoch

is_active_at(self, epoch) ==
    self.activation_epoch <= epoch /\ epoch < self.exit_epoch

is_exited_at_strict(self, epoch) ==
    self.exit_epoch < epoch

is_exited_at(self, epoch) ==
    self.exit_epoch <= epoch

is_withdrawable_at(self, epoch) ==
    epoch >= self.withdrawable_epoch

is_eligible_for_activation_queue_balance_only(self, cs) ==
    self.effective_balance = cs.max_effective_balance

is_eligible_for_activation_queue(self, cs) ==
    self.activation_eligibility_epoch = cs.far_future_epoch
        /\ self.effective_balance = cs.max_effective_balance

is_eligible_for_activation_strict(self, finalized_epoch, cs) ==
    self.activation_eligibility_epoch < finalized_epoch
        /\ self.activation_epoch = cs.far_future_epoch

\* finalized_epoch stands for state.finalized_checkpoint().epoch
is_eligible_for_activation(self, finalized_epoch, cs) ==
    self.activation_eligibility_epoch <= finalized_epoch
        /\ self.activation_epoch = cs.far_future_epoch

----------------------------------------------------------------------------
(* Withdrawal credentials.  Option<T> is <<>> (None) or <<x>> (Some(x)).   *)

\* slice.first()
first(bytes) == IF Len(bytes) = 0 THEN <<>> ELSE <<bytes[1]>>

\* slice.get(from..)
get_from(bytes, from) ==
    IF from > Len(bytes) THEN <<>> ELSE <<SubSeq(bytes, from + 1, Len(bytes))>>

has_eth1_withdrawal_credential_last_byte(self, cs) ==
    self.withdrawal_credentials[HashLen] = cs.eth1_address_withdrawal_prefix_byte

has_eth1_withdrawal_credential(self, cs) ==
    LET b == first(self.withdrawal_credentials)
    IN  IF b = <<>> THEN FALSE
        ELSE b[1] = cs.eth1_address_withdrawal_prefix_byte

get_eth1_withdrawal_address_unchecked(self, cs) ==
    get_from(self.withdrawal_credentials, AddressOffset)

get_eth1_withdrawal_address_from_start(self, cs) ==
    IF has_eth1_withdrawal_credential(self, cs)
    THEN <<SubSeq(self.withdrawal_credentials, 1, AddressLen)>>
    ELSE <<>>

get_eth1_withdrawal_address(self, cs) ==
    IF has_eth1_withdrawal_credential(self, cs)
    THEN get_from(self.withdrawal_credentials, AddressOffset)
    ELSE <<>>

change_withdrawal_credentials_keep_tail(self, execution_address, cs) ==
    [self EXCEPT !.withdrawal_credentials =
        [i \in 1..HashLen |->
            IF i = 1 THEN cs.eth1_address_withdrawal_prefix_byte
            ELSE IF i > AddressOffset THEN execution_address[i - AddressOffset]
            ELSE self.withdrawal_credentials[i]]]

\* the validator after the call (&mut self)
change_withdrawal_credentials(self, execution_address, cs) ==
    [self EXCEPT !.withdrawal_credentials =
        [i \in 1..HashLen |->
            IF i = 1 THEN cs.eth1_address_withdrawal_prefix_byte
            ELSE IF i > AddressOffset THEN execution_address[i - AddressOffset]
            ELSE 0]]

is_fully_withdrawable_at_strict_epoch(self, balance, epoch, cs) ==
    has_eth1_withdrawal_credential(self, cs)
        /\ self.withdrawable_epoch < epoch
        /\ balance > 0

is_fully_withdrawable_at(self, balance, epoch, cs) ==
    has_eth1_withdrawal_credential(self, cs)
        /\ self.withdrawable_epoch <= epoch
        /\ balance > 0

is_partially_withdrawable_validator_inclusive(self, balance, cs) ==
    has_eth1_withdrawal_credential(self, cs)
        /\ self.effective_balance = cs.max_effective_balance
        /\ balance >= cs.max_effective_balance

is_partially_withdrawable_validator(self, balance, cs) ==
    has_eth1_withdrawal_credential(self, cs)
        /\ self.effective_balance = cs.max_effective_balance
        /\ balance > cs.max_effective_balance

----------------------------------------------------------------------------
(* Calls.  ret records the last call: its name, its arguments, what it     *)
(* returned and the validator it was made on.                              *)

NoCall ==
    [op |-> "none", epoch |-> 0, balance |-> 0, address |-> <<>>,
     result |-> FALSE, option |-> <<>>, before |-> default]

Call(name, self) == [NoCall EXCEPT !.op = name, !.before = self]

Frame == UNCHANGED <<spec, changed, admissions>>

IsActiveAt ==
    \E epoch \in Epochs :
        /\ ret' = [Call("is_active_at", v) EXCEPT
                      !.epoch = epoch, !.result = is_active_at(v, epoch)]
        /\ UNCHANGED v
        /\ Frame

IsExitedAt ==
    \E epoch \in Epochs :
        /\ ret' = [Call("is_exited_at", v) EXCEPT
                      !.epoch = epoch, !.result = is_exited_at(v, epoch)]
        /\ UNCHANGED v
        /\ Frame

IsWithdrawableAt ==
    \E epoch \in Epochs :
        /\ ret' = [Call("is_withdrawable_at", v) EXCEPT
                      !.epoch = epoch, !.result = is_withdrawable_at(v, epoch)]
        /\ UNCHANGED v
        /\ Frame

IsEligibleForActivationQueue ==
    /\ ret' = [Call("is_eligible_for_activation_queue", v) EXCEPT
                  !.result = is_eligible_for_activation_queue(v, spec)]
    /\ UNCHANGED v
    /\ Frame

IsEligibleForActivation ==
    \E finalized_epoch \in Epochs :
        /\ ret' = [Call("is_eligible_for_activation", v) EXCEPT
                      !.epoch = finalized_epoch,
                      !.result = is_eligible_for_activation(v, finalized_epoch, spec)]
        /\ UNCHANGED v
        /\ Frame

HasEth1WithdrawalCredential ==
    /\ ret' = [Call("has_eth1_withdrawal_credential", v) EXCEPT
                  !.result = has_eth1_withdrawal_credential(v, spec)]
    /\ UNCHANGED v
    /\ Frame

GetEth1WithdrawalAddress ==
    /\ ret' = [Call("get_eth1_withdrawal_address", v) EXCEPT
                  !.option = get_eth1_withdrawal_address(v, spec)]
    /\ UNCHANGED v
    /\ Frame

\* changed remembers the address of the last change of the credentials
\* copy_from_slice panics unless source and destination lengths agree
ChangeWithdrawalCredentialsTo(execution_address) ==
    /\ Len(execution_address) = HashLen - AddressOffset
    /\ v' = change_withdrawal_credentials(v, execution_address, spec)
    /\ ret' = [Call("change_withdrawal_credentials", v) EXCEPT
                  !.address = execution_address]
    /\ changed' = <<execution_address>>
    /\ UNCHANGED <<spec, admissions>>

ChangeWithdrawalCredentials ==
    \E execution_address \in Addresses :
        ChangeWithdrawalCredentialsTo(execution_address)

IsFullyWithdrawableAt ==
    \E balance \in Balances, epoch \in Epochs :
        /\ ret' = [Call("is_fully_withdrawable_at", v) EXCEPT
                      !.balance = balance, !.epoch = epoch,
                      !.result = is_fully_withdrawable_at(v, balance, epoch, spec)]
        /\ UNCHANGED v
        /\ Frame

IsPartiallyWithdrawableValidator ==
    \E balance \in Balances :
        /\ ret' = [Call("is_partially_withdrawable_validator", v) EXCEPT
                      !.balance = balance,
                      !.result = is_partially_withdrawable_validator(v, balance, spec)]
        /\ UNCHANGED v
        /\ Frame

----------------------------------------------------------------------------
(* Spec: the withdrawal-credential accessors on sampled records *)

\* <<activation_eligibility, activation, exit, withdrawable>>
EpochTuples ==
    {<<MaxU64, MaxU64, MaxU64, MaxU64>>, <<0, 0, MaxU64, MaxU64>>, <<1, 2, 3, 5>>}

SampleValidators ==
    {[pubkey |-> pk,
      withdrawal_credentials |-> wc,
      effective_balance |-> eb,
      slashed |-> sl,
      activation_eligibility_epoch |-> t[1],
      activation_epoch |-> t[2],
      exit_epoch |-> t[3],
      withdrawable_epoch |-> t[4]] :
        pk \in Pubkeys, wc \in Credentials, eb \in {0, MaxU64},
        sl \in BOOLEAN, t \in EpochTuples}

Init ==
    /\ v \in SampleValidators
    /\ spec \in ChainSpecs
    /\ ret = NoCall
    /\ changed = <<>>
    /\ admissions = 0

Next ==
    \/ HasEth1WithdrawalCredential
    \/ GetEth1WithdrawalAddress
    \/ ChangeWithdrawalCredentials

Spec == Init /\ [][Next]_vars

----------------------------------------------------------------------------
(* SpecEpochs: the epoch predicates on every choice of the four epochs *)

EpochValidators ==
    {[default EXCEPT !.activation_eligibility_epoch = a,
                     !.activation_epoch = b,
                     !.exit_epoch = c,
                     !.withdrawable_epoch = d] :
        a \in Epochs, b \in Epochs, c \in Epochs, d \in Epochs}

InitEpochs ==
    /\ v \in EpochValidators
    /\ spec \in {cs \in ChainSpecs :
                    /\ cs.eth1_address_withdrawal_prefix_byte = 1
                    /\ cs.max_effective_balance = 2}
    /\ ret = NoCall
    /\ changed = <<>>
    /\ admissions = 0

NextEpochs ==
    \/ IsActiveAt
    \/ IsExitedAt
    \/ IsWithdrawableAt
    \/ IsEligibleForActivation

SpecEpochs == InitEpochs /\ [][NextEpochs]_vars

----------------------------------------------------------------------------
(* SpecWithdraw: the withdrawability predicates *)

WithdrawValidators ==
    {[default EXCEPT !.withdrawal_credentials = wc,
                     !.withdrawable_epoch = we,
                     !.effective_balance = eb] :
        wc \in Credentials, we \in Epochs, eb \in Balances}

InitWithdraw ==
    /\ v \in WithdrawValidators
    /\ spec \in ChainSpecs
    /\ ret = NoCall
    /\ changed = <<>>
    /\ admissions = 0

NextWithdraw ==
    \/ IsFullyWithdrawableAt
    \/ IsPartiallyWithdrawableValidator

SpecWithdraw == InitWithdraw /\ [][NextWithdraw]_vars

----------------------------------------------------------------------------
(* SpecLifecycle: a record under the epoch-processing driver.  The driver  *)
(* owns every registry mutation; it queues a record when                   *)
(* is_eligible_for_activation_queue says so, and is otherwise free to      *)
(* change the balance, the other epochs, the slashed flag and the          *)
(* credentials.                                                            *)

EpochSamples == {0, MaxU64 - 1, MaxU64}

DriverAddresses == {Fill(AddressLen, 0), Ramp(AddressLen)}

Driver(self) == [NoCall EXCEPT !.op = "driver", !.before = self]

DriverQueue ==
    \E epoch \in Epochs \ {spec.far_future_epoch} :
        /\ admissions < MaxAdmissions
        /\ is_eligible_for_activation_queue(v, spec)
        /\ v' = [v EXCEPT !.activation_eligibility_epoch = epoch]
        /\ admissions' = admissions + 1
        /\ ret' = [Driver(v) EXCEPT !.op = "queue", !.epoch = epoch]
        /\ UNCHANGED <<spec, changed>>

DriverSetEffectiveBalance ==
    \E balance \in Balances :
        /\ v' = [v EXCEPT !.effective_balance = balance]
        /\ ret' = Driver(v)
        /\ Frame

DriverSetActivationEpoch ==
    \E epoch \in EpochSamples :
        /\ v' = [v EXCEPT !.activation_epoch = epoch]
        /\ ret' = Driver(v)
        /\ Frame

DriverSetExitEpoch ==
    \E epoch \in EpochSamples :
        /\ v' = [v EXCEPT !.exit_epoch = epoch]
        /\ ret' = Driver(v)
        /\ Frame

DriverSetWithdrawableEpoch ==
    \E epoch \in EpochSamples :
        /\ v' = [v EXCEPT !.withdrawable_epoch = epoch]
        /\ ret' = Driver(v)
        /\ Frame

DriverSlash ==
    /\ v' = [v EXCEPT !.slashed = TRUE]
    /\ ret' = Driver(v)
    /\ Frame

DriverChangeWithdrawalCredentials ==
    \E execution_address \in DriverAddresses :
        ChangeWithdrawalCredentialsTo(execution_address)

InitLifecycle ==
    /\ v \in {[default EXCEPT !.effective_balance = eb] : eb \in Balances}
    /\ spec \in {cs \in ChainSpecs : cs.eth1_address_withdrawal_prefix_byte = 1}
    /\ ret = NoCall
    /\ changed = <<>>
    /\ admissions = 0

NextLifecycle ==
    \/ IsEligibleForActivationQueue
    \/ DriverQueue
    \/ DriverSetEffectiveBalance
    \/ DriverSetActivationEpoch
    \/ DriverSetExitEpoch
    \/ DriverSetWithdrawableEpoch
    \/ DriverSlash
    \/ DriverChangeWithdrawalCredentials

SpecLifecycle == InitLifecycle /\ [][NextLifecycle]_vars

----------------------------------------------------------------------------
(* Properties *)

Called(name) == ret.op = name

FarFuture == spec.far_future_epoch

Prefix == spec.eth1_address_withdrawal_prefix_byte

MaxEffectiveBalance == spec.max_effective_balance

DefaultQueries == {"is_active_at", "is_exited_at", "is_withdrawable_at"}

\* C1 as stated: on the default record, at every representable epoch,
\* is_active_at, is_exited_at and is_withdrawable_at are all false and
\* slashed is false.
C1_AllFalseAtEveryEpoch ==
    (ret.op \in DefaultQueries /\ ret.before = default)
        => (~ret.result /\ ~ret.before.slashed)

\* C1 amended: on the default record is_active_at is false at every epoch and
\* slashed is false; is_exited_at and is_withdrawable_at are false at every
\* epoch below far_future_epoch and true at far_future_epoch itself.
C1_DefaultNeverActive ==
    (ret.op \in DefaultQueries /\ ret.before = default)
        => /\ ~ret.before.slashed
           /\ Called("is_active_at") => ~ret.result
           /\ ret.epoch < FarFuture => ~ret.result
           /\ (ret.epoch = FarFuture /\ ~Called("is_active_at")) => ret.result

C1_Witness ==
    /\ Called("is_exited_at")
    /\ ret.before = default
    /\ ret.epoch = FarFuture - 1
    /\ ~ret.result

\* C2: after change_withdrawal_credentials(addr, spec), a call of
\* get_eth1_withdrawal_address(spec) with the same spec returns Some(addr),
\* whatever the record held before.
C2_RoundTrip ==
    /\ Called("change_withdrawal_credentials")
           => get_eth1_withdrawal_address(v, spec) = <<ret.address>>
    /\ (Called("get_eth1_withdrawal_address") /\ changed # <<>>)
           => ret.option = changed

C2_Witness ==
    /\ Called("get_eth1_withdrawal_address")
    /\ changed = <<Ramp(AddressLen)>>
    /\ ret.option = <<Ramp(AddressLen)>>

\* the credentials the setter is specified to leave
Encoded(execution_address) ==
    [i \in 1..HashLen |->
        IF i = 1 THEN Prefix
        ELSE IF i <= AddressOffset THEN 0
        ELSE execution_address[i - AddressOffset]]

\* C3: change_withdrawal_credentials can be called on every record with every
\* address; it leaves byte 0 = prefix, bytes [1,12) = 0, bytes [12,32) = the
\* address, keeps nothing of the previous credentials and changes no other
\* field.
C3_RawSetter ==
    /\ \A a \in Addresses : ENABLED ChangeWithdrawalCredentialsTo(a)
    /\ Called("change_withdrawal_credentials")
           => /\ v.withdrawal_credentials = Encoded(ret.address)
              /\ v = [ret.before EXCEPT
                         !.withdrawal_credentials = v.withdrawal_credentials]

C3_Witness ==
    /\ Called("change_withdrawal_credentials")
    /\ ret.before.withdrawal_credentials = Tagged(255, Fill(HashLen, 255))
    /\ ret.before.slashed
    /\ ret.before.exit_epoch = 3
    /\ ret.address = Ramp(AddressLen)
    /\ Prefix = 1

\* C4: get_eth1_withdrawal_address returns Some(bytes [12,32)) when byte 0 is
\* the prefix byte and None otherwise, so it is present exactly when
\* has_eth1_withdrawal_credential is true.
C4_ValidatingGetter ==
    Called("get_eth1_withdrawal_address")
        => LET wc == ret.before.withdrawal_credentials
           IN  /\ wc[1] = Prefix
                      => ret.option = <<[i \in 1..AddressLen |-> wc[AddressOffset + i]]>>
               /\ wc[1] # Prefix => ret.option = <<>>
               /\ (ret.option # <<>>) <=> has_eth1_withdrawal_credential(ret.before, spec)

C4_Witness ==
    /\ Called("get_eth1_withdrawal_address")
    /\ ret.before.withdrawal_credentials = Tagged(0, Ramp(HashLen))
    /\ Prefix = 1
    /\ ret.option = <<>>

\* C5: has_eth1_withdrawal_credential is true iff byte 0 equals the prefix
\* byte; records that agree on byte 0 get the same answer whatever their
\* bytes 1..31.
C5_FirstByteOnly ==
    Called("has_eth1_withdrawal_credential")
        => LET wc == ret.before.withdrawal_credentials
           IN  /\ ret.result = (wc[1] = Prefix)
               /\ \A w \in Credentials :
                      w[1] = wc[1]
                          => has_eth1_withdrawal_credential(
                                 [ret.before EXCEPT !.withdrawal_credentials = w],
                                 spec) = ret.result

C5_Witness ==
    /\ Called("has_eth1_withdrawal_credential")
    /\ ret.before.withdrawal_credentials = Tagged(0, Fill(HashLen, 255))
    /\ Prefix = 255
    /\ ~ret.result

\* C6: is_eligible_for_activation_queue is true iff activation_eligibility_epoch
\* is far_future_epoch and effective_balance is max_effective_balance; once the
\* driver has queued the record it is false for ever, so the record is queued
\* at most once.
C6_QueuedOnce ==
    /\ Called("is_eligible_for_activation_queue")
           => ret.result =
                  (/\ ret.before.activation_eligibility_epoch = FarFuture
                   /\ ret.before.effective_balance = MaxEffectiveBalance)
    /\ admissions > 0 => ~is_eligible_for_activation_queue(v, spec)
    /\ (Called("is_eligible_for_activation_queue") /\ admissions > 0) => ~ret.result
    /\ admissions <= 1

C6_Witness ==
    /\ Called("is_eligible_for_activation_queue")
    /\ admissions = 1
    /\ v.effective_balance = MaxEffectiveBalance
    /\ v.activation_epoch = FarFuture
    /\ v.slashed
    /\ v.withdrawal_credentials # ZeroHash
    /\ ~ret.result

\* C7: is_eligible_for_activation is true iff activation_eligibility_epoch <=
\* finalized_epoch and activation_epoch is far_future_epoch: eligibility 3 and
\* activation unset give true at finalized 3 and false at finalized 2, and a
\* set activation_epoch gives false at every finalized epoch.
C7_EligibleForActivation ==
    Called("is_eligible_for_activation")
        => LET r == ret.before
           IN  /\ ret.result =
                      (/\ r.activation_eligibility_epoch <= ret.epoch
                       /\ r.activation_epoch = FarFuture)
               /\ (/\ r.activation_eligibility_epoch = 3
                   /\ r.activation_epoch = FarFuture
                   /\ ret.epoch = 3) => ret.result
               /\ (/\ r.activation_eligibility_epoch = 3
                   /\ r.activation_epoch = FarFuture
                   /\ ret.epoch = 2) => ~ret.result
               /\ r.activation_epoch # FarFuture => ~ret.result

C7_Witness ==
    /\ Called("is_eligible_for_activation")
    /\ ret.before.activation_eligibility_epoch = 3
    /\ ret.before.activation_epoch = FarFuture
    /\ ret.epoch = 3
    /\ ret.result

\* is_active_at(epoch) <=> activation_epoch <= epoch < exit_epoch, and no
\* record is active at its own exit_epoch
ActiveWindow ==
    LET r == ret.before
    IN  /\ ret.result = (r.activation_epoch <= ret.epoch /\ ret.epoch < r.exit_epoch)
        /\ ret.epoch = r.exit_epoch => ~ret.result

\* C8 as stated: is_active_at(epoch) <=> activation_epoch <= epoch < exit_epoch;
\* a record with activation_epoch = N (set) and exit_epoch unset is inactive at
\* N-1 and active at N and at N+1; no record is active at its own exit_epoch.
C8_ActiveAtNextEpoch ==
    Called("is_active_at")
        => LET r == ret.before
               N == r.activation_epoch
           IN  /\ ActiveWindow
               /\ (N # FarFuture /\ r.exit_epoch = FarFuture)
                      => /\ ret.epoch + 1 = N => ~ret.result
                         /\ ret.epoch = N => ret.result
                         /\ ret.epoch = N + 1 => ret.result

\* C8 amended: as stated, except that the record is active at N+1 only when
\* N+1 is below far_future_epoch (the unset exit_epoch is an exclusive bound).
C8_ActiveWindow ==
    Called("is_active_at")
        => LET r == ret.before
               N == r.activation_epoch
           IN  /\ ActiveWindow
               /\ (N # FarFuture /\ r.exit_epoch = FarFuture)
                      => /\ ret.epoch + 1 = N => ~ret.result
                         /\ ret.epoch = N => ret.result
                         /\ (ret.epoch = N + 1 /\ N + 1 < FarFuture) => ret.result
                         /\ (ret.epoch = N + 1 /\ N + 1 = FarFuture) => ~ret.result

C8_Witness ==
    /\ Called("is_active_at")
    /\ ret.before.activation_epoch = 2
    /\ ret.before.exit_epoch = FarFuture
    /\ ret.epoch = 3
    /\ ret.result

\* C9: is_fully_withdrawable_at is true iff has_eth1_withdrawal_credential and
\* withdrawable_epoch <= epoch and balance > 0: with an eth1 credential and
\* withdrawable_epoch 5 it is true at epoch 5 with balance 1, false with
\* balance 0 and false at epoch 4; without an eth1 credential it is false.
C9_FullyWithdrawable ==
    Called("is_fully_withdrawable_at")
        => LET r == ret.before
               eth1 == has_eth1_withdrawal_credential(r, spec)
           IN  /\ ret.result =
                      (eth1 /\ r.withdrawable_epoch <= ret.epoch /\ ret.balance > 0)
               /\ (eth1 /\ r.withdrawable_epoch = 5)
                      => /\ (ret.epoch = 5 /\ ret.balance = 1) => ret.result
                         /\ (ret.epoch = 5 /\ ret.balance = 0) => ~ret.result
                         /\ ret.epoch = 4 => ~ret.result
               /\ r.withdrawal_credentials[1] # Prefix => ~ret.result

C9_Witness ==
    /\ Called("is_fully_withdrawable_at")
    /\ ret.before.withdrawal_credentials[1] = Prefix
    /\ ret.before.withdrawable_epoch = 5
    /\ ret.epoch = 5
    /\ ret.balance = 1
    /\ ret.result

\* C10: is_partially_withdrawable_validator is true iff
\* has_eth1_withdrawal_credential and effective_balance = max_effective_balance
\* and balance > max_effective_balance: true at balance = max_effective_balance
\* + 1, false at balance = max_effective_balance, and false for every balance
\* when effective_balance < max_effective_balance.
C10_PartiallyWithdrawable ==
    Called("is_partially_withdrawable_validator")
        => LET r == ret.before
               eth1 == has_eth1_withdrawal_credential(r, spec)
           IN  /\ ret.result =
                      (/\ eth1
                       /\ r.effective_balance = MaxEffectiveBalance
                       /\ ret.balance > MaxEffectiveBalance)
               /\ (eth1 /\ r.effective_balance = MaxEffectiveBalance)
                      => /\ ret.balance = MaxEffectiveBalance + 1 => ret.result
                         /\ ret.balance = MaxEffectiveBalance => ~ret.result
               /\ r.effective_balance < MaxEffectiveBalance => ~ret.result

C10_Witness ==
    /\ Called("is_partially_withdrawable_validator")
    /\ ret.before.withdrawal_credentials[1] = Prefix
    /\ ret.before.effective_balance = MaxEffectiveBalance
    /\ ret.balance = MaxEffectiveBalance + 1
    /\ ret.result

====
